---- MODULE Spec2Model ----
(***************************************************************************)
(* A model of react-native-check-new-archi (src/src/index.ts, lines 1-271):*)
(* checkLibraries starts one checkLibrary task per dependency; every task  *)
(* walks directory lookup -> registry lookup -> raw manifest per branch,   *)
(* each network call going through fetchWithRetry, and records its verdict *)
(* in the shared counts / results.                                         *)
(*                                                                         *)
(* JavaScript runs every continuation to completion: one action of the     *)
(* model is the arrival of one response together with everything the task  *)
(* does until its next await.                                              *)
(*                                                                         *)
(* fetchWithTimeout races fetch against a timer and cancels neither: the   *)
(* request of a lost race stays in flight; `leaked` says whether any such  *)
(* request is still unanswered.                                            *)
(*                                                                         *)
(* The specifications of index.ts lines 1-271 share the actions and differ *)
(* in their inputs:                                                        *)
(*   Spec       up to NumLibs libraries, one body per behaviour, failures  *)
(*              that arrive before the timer, no command-line argument     *)
(*   SpecFull   two libraries, every body, every failure                   *)
(*   SpecCli    two libraries, every dependencies object and every         *)
(*              combination of command-line arguments                      *)
(*   SpecCount  two libraries, the requests of the first one counted       *)
(*   SpecOne    one library, every libraries array and every URL           *)
(*   SpecLive   two libraries, every request answered in the end           *)
(*   SpecWorld  two libraries, every URL fixed to one response             *)
(*   SpecLoad   two libraries, and the files that are not a package.json   *)
(*                                                                         *)
(* The earlier revisions kept in the repository have their own actions:    *)
(*   SpecSeq    the sequential revisions (index.ts lines 273-403 and       *)
(*              part_002), one dependency at a time                        *)
(*   SpecBoth   the concurrent revision of part_001 and index.ts lines     *)
(*              1-271 on the same input and the same fixed responses       *)
(***************************************************************************)
EXTENDS Integers, Sequences, FiniteSets, TLC

\* ------------------------------------------------------------------ bounds
\* the number of dependency names a run can be given
NumLibs == 2

LibNames == <<"axios", "some-lib", "my-custom-lib", "react-navigation">>
Libs == {LibNames[k] : k \in 1..NumLibs}
\* the names of the runs that draw every body
PairLibs == {LibNames[1], LibNames[2]}
\* every key a dependencies object can hold: the libraries and the name
\* the filter drops
AllNames == Libs \cup {"react-native"}

\* the longest libraries array a directory answer holds
MaxRecords == 2
\* the most pieces a repository URL is made of
MaxUrlLen == 3
\* the names a sequential run loops over
MaxSeqLibs == 3

\* --------------------------------------------------------------- constants
\* nothing is filtered out
IGNORED_LIBRARIES_None == {}
IGNORED_LIBRARIES == {"react-native"}
BRANCHES_MainFirst == <<"main", "master">>
BRANCHES == <<"master", "main">>
retries == 3

Statuses == {"supported", "notSupported", "notFound"}

RESULT_CATEGORIES_NotFoundIsNative ==
  [fullJs |-> "supported", native |-> "notSupported",
   notFound |-> "notSupported"]

RESULT_CATEGORIES ==
  [fullJs |-> "supported", native |-> "notSupported", notFound |-> "notFound"]

\* ------------------------------------------------------ the outside world
\* What the network can answer to one request.  kind:
\*   ok       success status, body is valid JSON (the parsed value is body)
\*   badjson  success status, body is not valid JSON
\*   http     non-success status (the body is never read)
\*   neterr   fetch() rejected
\*   timeout  the FETCH_TIMEOUT timer won the race
NoBody == [shape |-> "none"]
FailKinds == {"badjson", "http", "neterr", "timeout"}
\* the failures of the runs that vary the command line
CliFailKinds == {"badjson"}

Flag == {"true", "false", "absent"}
\* one record of LibraryData.libraries; github is github?.newArchitecture,
\* "nogithub" when the github object itself is absent
LibraryRecords ==
  [shape : {"rec"}, expoGo : Flag, newArchitecture : Flag,
   github : Flag \cup {"nogithub"}]
NullRecord ==
  [shape |-> "null", expoGo |-> "absent", newArchitecture |-> "absent",
   github |-> "nogithub"]

\* the parsed directory answer: JSON null, an object without libraries,
\* or an object whose libraries is an array
DirBodies ==
  {[shape |-> "null", libraries |-> <<>>],
   [shape |-> "nolibs", libraries |-> <<>>],
   [shape |-> "libs", libraries |-> <<>>]}
  \cup {[shape |-> "libs", libraries |-> <<r>>] :
          r \in LibraryRecords \cup {NullRecord}}
DirErrBodies == {[shape |-> "nolibs", libraries |-> <<>>]}

\* a URL is a sequence of pieces; "git+" and ".git" are the pieces the
\* normalisation looks for
Urls ==
  {<<"git+", "https://github.com/o/r", ".git">>,
   <<"https://github.com/o/r">>,
   <<"git+", ".git">>}
RegBodies ==
  {[shape |-> s, url |-> <<>>] : s \in {"null", "norepo", "nourl"}}
  \cup {[shape |-> "url", url |-> u] : u \in Urls}
RegErrBodies == {[shape |-> "norepo", url |-> <<>>]}

\* a dependency name is a sequence of pieces; "react-native" is the marker
DepNames == {<<"lodash">>, <<"@notifee/", "react-native">>}
DepSections == [has : {TRUE}, keys : SUBSET DepNames]
                 \cup {[has |-> FALSE, keys |-> {}]}
ManifestBodies ==
  {[shape |-> "null", dependencies |-> [has |-> FALSE, keys |-> {}],
    devDependencies |-> [has |-> FALSE, keys |-> {}]]}
  \cup [shape : {"obj"}, dependencies : DepSections,
        devDependencies : DepSections]
ManifestErrBodies ==
  {[shape |-> "obj", dependencies |-> [has |-> TRUE, keys |-> DepNames],
    devDependencies |-> [has |-> FALSE, keys |-> {}]],
   [shape |-> "obj", dependencies |-> [has |-> FALSE, keys |-> {}],
    devDependencies |-> [has |-> FALSE, keys |-> {}]]}

\* one body of each kind the code tells apart, for the runs over many
\* libraries
Rec(e, n, g) ==
  [shape |-> "rec", expoGo |-> e, newArchitecture |-> n, github |-> g]
Section(h, k) == [has |-> h, keys |-> k]
CoreDirBodies ==
  {[shape |-> "null", libraries |-> <<>>],
   [shape |-> "nolibs", libraries |-> <<>>],
   [shape |-> "libs", libraries |-> <<>>],
   [shape |-> "libs", libraries |-> <<NullRecord>>],
   [shape |-> "libs", libraries |-> <<Rec("absent", "absent", "nogithub")>>],
   [shape |-> "libs", libraries |-> <<Rec("absent", "true", "nogithub")>>]}
CoreRegBodies ==
  {[shape |-> "norepo", url |-> <<>>],
   [shape |-> "url", url |-> <<"git+", "https://github.com/o/r", ".git">>],
   [shape |-> "url", url |-> <<"git+", ".git">>]}
CoreManifestBodies ==
  {[shape |-> "null", dependencies |-> Section(FALSE, {}),
    devDependencies |-> Section(FALSE, {})],
   [shape |-> "obj", dependencies |-> Section(FALSE, {}),
    devDependencies |-> Section(FALSE, {})],
   [shape |-> "obj", dependencies |-> Section(TRUE, {<<"lodash">>}),
    devDependencies |-> Section(FALSE, {})],
   [shape |-> "obj", dependencies |-> Section(FALSE, {}),
    devDependencies |-> Section(TRUE, {<<"@notifee/", "react-native">>})]}

\* the sequences over S of length 1..n
SeqsUpTo(S, n) == UNION {[1..k -> S] : k \in 1..n}

\* records that say which package they describe: the requested one
\* ("self") or another one the search matched ("other")
NamedRecords ==
  {[shape |-> "rec", expoGo |-> "absent", newArchitecture |-> n,
    github |-> "nogithub", npmPkg |-> p] :
     n \in {"true", "absent"}, p \in {"self", "other"}}
\* every libraries array of up to MaxRecords such records, and the empty one
RecordListBodies ==
  {[shape |-> "libs", libraries |-> q] :
     q \in SeqsUpTo(NamedRecords, MaxRecords) \cup {<<>>}}

\* every URL of up to MaxUrlLen pieces
UrlPieces == {"git+", ".git", "github.com/o/r"}
AllUrls == SeqsUpTo(UrlPieces, MaxUrlLen)
AllUrlBodies ==
  {[shape |-> s, url |-> <<>>] : s \in {"norepo", "nourl"}}
  \cup {[shape |-> "url", url |-> u] : u \in AllUrls}

\* the answers of a network whose failures are of the kinds F
Responses(bodies, errBodies, F) ==
  {[kind |-> "ok", body |-> b] : b \in bodies}
  \cup {[kind |-> "http", body |-> b] :
          b \in IF "http" \in F THEN errBodies ELSE {}}
  \cup {[kind |-> k, body |-> NoBody] : k \in F \ {"http"}}

\* ------------------------------------------------------------------ state
VARIABLES
  mainPc,      \* checkLibraries: "init", "awaiting" (Promise.all), "returned",
               \*   "failed" (it threw before starting a task)
  libraries,   \* the filtered dependency names
  pc,          \* per task: "off", "dir", "reg", "br", "recorded", "done"
  attempt,     \* per task: i of the running fetchWithRetry
  branch,      \* per task: index in BRANCHES of checkIfFullJS's loop
  requested,   \* per task: the targets a request was issued to
  dirRes,      \* per task: "pending", "record", "norecord", "fetchError"
               \*   (fetchWithRetry threw), "typeError" (the answer was null)
  repoUrl,     \* per task: the local repoUrl of checkLibrary
  fullJsResult,\* per task: the local fullJsResult of checkLibrary
  verdict,     \* per task: the status the task recorded
  counts,      \* the shared counts
  results,     \* the shared per-status name lists
  progress,    \* the progress set
  result,      \* the value checkLibraries returns
  last,        \* the response handled by the latest step
  rawData,     \* the keys of rawData.dependencies
  parsed,      \* what JSON.parse returned, as isValidPackageJson sees it
  thrown,      \* the message of the error checkLibraries threw, or "none"
  args,        \* process.argv.slice(2), as a set
  config,      \* what parseArguments returned
  shown,       \* per library: the status lines displayStatus printed
  leaked,      \* a request that lost the race against its timer is still
               \*   in flight
  world,       \* the response every URL is fixed to, when the run has one
  grouped,     \* the lines displayResults printed
  reports,     \* the k of every "Scanning k of N" written so far
  watched,     \* the libraries whose requests the run counts
  sent,        \* per watched library and target: the requests issued
  seq,         \* the run of a sequential revision (index.ts lines 273-403,
               \*   part_002); [pc |-> "init"] until it starts, then
               \*     revision   "first" (index.ts) or "second" (part_002)
               \*     pc         the await checkLibraries is at: "dir", "reg",
               \*                "master", "main", or "returned"
               \*     libraries  the filtered names, in the order of the loop
               \*     index      the position of the for loop in libraries
               \*     counts     countOk, countKo, countNotFound (first),
               \*                counts (second), under the names of Counts
  p1           \* the run of the concurrent revision of part_001;
               \*   [main |-> "init"] until it starts, then
               \*     main       "awaiting" (Promise.all) or "returned"
               \*     libraries  the filtered names
               \*     pc         per task: "off", "dir", "reg", "master",
               \*                "main", "settled", "done"
               \*     counts, groupedResults, progress
               \*     result     the value checkLibraries returns

inputVars == <<rawData, parsed, thrown, args, config, world, watched>>

\* the state of the run of index.ts lines 1-271
mainVars ==
  <<mainPc, libraries, pc, attempt, branch, requested, dirRes, repoUrl,
    fullJsResult, verdict, counts, results, progress, result, last, shown,
    leaked, grouped, reports, sent, inputVars>>
\* the state of the runs of the other revisions
revisionVars == <<seq, p1>>

vars ==
  <<mainPc, libraries, pc, attempt, branch, requested, dirRes, repoUrl,
    fullJsResult, verdict, counts, results, progress, result, last,
    rawData, parsed, thrown, args, config, shown, leaked, world, grouped,
    reports, watched, sent, seq, p1>>

\* ---------------------------------------------------------------- helpers
\* a parsed JSON value as isValidPackageJson looks at it: truthy is !!data,
\* typeof is typeof data, keys are the keys the `in` operator finds
ParsedValue(t, ty, k) == [truthy |-> t, typeof |-> ty, keys |-> k]
NotParsed == ParsedValue(FALSE, "undefined", {})
\* the parsed file of a project with a dependencies object
PackageJson == ParsedValue(TRUE, "object", {"dependencies"})
\* null, 0, a string, an empty object or an array, an object with other keys
InvalidPackageJsons ==
  {ParsedValue(FALSE, "object", {}),
   ParsedValue(FALSE, "number", {}),
   ParsedValue(TRUE, "string", {}),
   ParsedValue(TRUE, "object", {}),
   ParsedValue(TRUE, "object", {"devDependencies"})}

\* lines 71-73
isValidPackageJson(data) ==
  data.truthy /\ data.typeof = "object" /\ "dependencies" \in data.keys

\* the loop runs while i <= retries: one attempt more
fetchWithRetry_OffByOne(resp, k) ==
  IF resp.kind = "ok" THEN "return"
  ELSE IF resp.kind = "badjson" THEN "throw"
  ELSE IF k = retries THEN "throw"
  ELSE "retry"

\* the status of the response is not looked at: a non-success body is parsed
fetchWithRetry_IgnoresStatus(resp, k) ==
  IF resp.kind \in {"ok", "http"} THEN "return"
  ELSE IF resp.kind = "badjson" THEN "throw"
  ELSE IF k = retries - 1 THEN "throw"
  ELSE "retry"

\* response.json() is awaited inside the try: a parse error is retried too
fetchWithRetry_AwaitsJson(resp, k) ==
  IF resp.kind = "ok" THEN "return"
  ELSE IF k = retries - 1 THEN "throw"
  ELSE "retry"

\* fetchWithRetry, one turn of its loop: what happens when the request of
\* turn k is answered by resp.  "return": the parsed body goes to the caller;
\* "retry": the catch swallows the error and the loop issues the next
\* request; "throw": the error reaches the caller.  response.json() is
\* returned without await, so its rejection is not seen by the catch.
fetchWithRetry(resp, k) ==
  IF resp.kind = "ok" THEN "return"
  ELSE IF resp.kind = "badjson" THEN "throw"
  ELSE IF k = retries - 1 THEN "throw"
  ELSE "retry"

\* a record that does not say "supported" is double-checked in the registry
DirectoryStatus_UnsupportedFallsThrough(data) ==
  IF data.shape = "null" THEN "throw"
  ELSE IF data.shape = "libs" /\ Len(data.libraries) > 0 THEN
    LET r == data.libraries[1] IN
      IF r.shape = "null" THEN "throw"
      ELSE IF r.expoGo = "true" \/ r.newArchitecture = "true"
              \/ r.github = "true"
        THEN "supported"
        ELSE "fallthrough"
  ELSE "fallthrough"

\* a record with none of the three fields counts as no record
DirectoryStatus_NoFieldsFallsThrough(data) ==
  IF data.shape = "null" THEN "throw"
  ELSE IF data.shape = "libs" /\ Len(data.libraries) > 0 THEN
    LET r == data.libraries[1] IN
      IF r.shape = "null" THEN "throw"
      ELSE IF r.expoGo = "true" \/ r.newArchitecture = "true"
              \/ r.github = "true"
        THEN "supported"
      ELSE IF r.expoGo = "absent" /\ r.newArchitecture = "absent"
              /\ r.github \in {"absent", "nogithub"}
        THEN "fallthrough"
        ELSE "notSupported"
  ELSE "fallthrough"

\* github?.newArchitecture is left out of the OR
DirectoryStatus_IgnoresGithub(data) ==
  IF data.shape = "null" THEN "throw"
  ELSE IF data.shape = "libs" /\ Len(data.libraries) > 0 THEN
    LET r == data.libraries[1] IN
      IF r.shape = "null" THEN "throw"
      ELSE IF r.expoGo = "true" \/ r.newArchitecture = "true"
        THEN "supported"
        ELSE "notSupported"
  ELSE "fallthrough"

\* libraries.some(...): any record that says supported decides
DirectoryStatus_AnyRecord(data) ==
  IF data.shape = "null" THEN "throw"
  ELSE IF data.shape = "libs" /\ Len(data.libraries) > 0 THEN
    IF data.libraries[1].shape = "null" THEN "throw"
    ELSE IF \E k \in 1..Len(data.libraries) :
              LET r == data.libraries[k] IN
                r.expoGo = "true" \/ r.newArchitecture = "true"
                  \/ r.github = "true"
      THEN "supported"
      ELSE "notSupported"
  ELSE "fallthrough"

\* checkLibrary's reading of the directory answer
DirectoryStatus(data) ==
  IF data.shape = "null" THEN "throw"
  ELSE IF data.shape = "libs" /\ Len(data.libraries) > 0 THEN
    LET r == data.libraries[1] IN
      IF r.shape = "null" THEN "throw"
      ELSE IF r.expoGo = "true" \/ r.newArchitecture = "true"
              \/ r.github = "true"
        THEN "supported"
        ELSE "notSupported"
  ELSE "fallthrough"

\* every "git+" and every ".git" is removed, wherever it stands
NormalizeUrl_AllOccurrences(u) ==
  LET Kept(x) == x \notin {"git+", ".git"} IN SelectSeq(u, Kept)

\* url.replace(/^git\+|\.git$/g, "")
NormalizeUrl(u) ==
  LET a == IF Len(u) > 0 /\ u[1] = "git+" THEN Tail(u) ELSE u
  IN IF Len(a) > 0 /\ a[Len(a)] = ".git" THEN SubSeq(a, 1, Len(a) - 1) ELSE a

NullUrl == [st |-> "null", url |-> <<>>]
UnsetUrl == [st |-> "unset", url |-> <<>>]
\* the null getGitHubRepoUrl returns from its catch
CaughtUrl == [st |-> "error", url |-> <<>>]

\* getGitHubRepoUrl's value for a parsed registry answer
RepositoryUrl(data) ==
  IF data.shape = "url" THEN [st |-> "url", url |-> NormalizeUrl(data.url)]
  ELSE NullUrl

\* JavaScript truthiness of repoUrl: null and "" are falsy
Truthy(repo) == repo.st = "url" /\ Len(repo.url) > 0

\* dep.includes("react-native")
Includes(name) == \E k \in 1..Len(name) : name[k] = "react-native"

\* only the runtime dependencies are scanned
HasNativeDeps_DependenciesOnly(packageJson) ==
  \E dep \in packageJson.dependencies.keys : Includes(dep)

\* checkIfFullJS on a parsed manifest: "throw" when the manifest is null
HasNativeDeps(packageJson) ==
  \E dep \in packageJson.dependencies.keys
             \cup packageJson.devDependencies.keys : Includes(dep)

Classify(packageJson) ==
  IF packageJson.shape = "null" THEN "throw"
  ELSE IF HasNativeDeps(packageJson) THEN "native"
  ELSE "fullJs"

\* a bucket updated from a snapshot taken before another task's update
IncCount_StaleSnapshot(c, s) == [c EXCEPT ![s] = IF @ = 0 THEN 1 ELSE @]
\* counts[status]++
IncCount(c, s) == [c EXCEPT ![s] = @ + 1]
\* results[status] = [lib]: the list is replaced
Push_Replaces(r, s, l) == [r EXCEPT ![s] = <<l>>]
\* results[status].push(lib)
Push(r, s, l) == [r EXCEPT ![s] = Append(@, l)]

\* the command-line arguments the runs draw from
Args == {"--group", "-s", "-ns", "-nf"}

\* lines 45-64
parseArguments(a) ==
  LET showGroup == "--group" \in a \/ "-g" \in a
      flags == [supported |-> "-s" \in a \/ "--supported" \in a,
                notSupported |-> "-ns" \in a \/ "--not-supported" \in a,
                notFound |-> "-nf" \in a \/ "--not-found" \in a]
  IN IF ~flags["supported"] /\ ~flags["notSupported"] /\ ~flags["notFound"]
       THEN [showGroup |-> showGroup, flags |-> [s \in Statuses |-> TRUE]]
       ELSE [showGroup |-> showGroup, flags |-> flags]

\* the status flags are not looked at
displayStatus_IgnoresFlags(out, status, showGroup, flags) ==
  IF ~showGroup THEN Append(out, status) ELSE out

\* displayStatus: the lines of one library after the call
displayStatus(out, status, showGroup, flags) ==
  IF ~showGroup /\ flags[status] THEN Append(out, status) ELSE out

\* Object.entries(results): the statuses in the order of lines 237-241
StatusOrder == <<"supported", "notSupported", "notFound">>

\* the lines of one group: its title, then its names
GroupLines(results_, status) ==
  <<<<"title", status>>>>
    \o [k \in 1..Len(results_[status]) |-> <<"name", results_[status][k]>>]

\* the status flags are not looked at
displayResults_IgnoresFlags(results_, flags) ==
  LET part(status) ==
        IF Len(results_[status]) > 0
          THEN GroupLines(results_, status) ELSE <<>>
  IN part(StatusOrder[1]) \o part(StatusOrder[2]) \o part(StatusOrder[3])

\* displayResults: the lines it prints
displayResults(results_, flags) ==
  LET part(status) ==
        IF flags[status] /\ Len(results_[status]) > 0
          THEN GroupLines(results_, status) ELSE <<>>
  IN part(StatusOrder[1]) \o part(StatusOrder[2]) \o part(StatusOrder[3])

\* the targets a pipeline can send requests to
Targets == {"dir", "reg", "master", "main"}

\* the network of a run whose responses are not fixed in advance
FreeNetwork == <<>>

\* what `last` keeps of a response: the body only when it was parsed
Seen(l, stage, resp) ==
  [lib |-> l, stage |-> stage, kind |-> resp.kind,
   body |-> IF resp.kind = "ok" THEN resp.body ELSE NoBody]

NoEvent == [lib |-> "none", stage |-> "none", kind |-> "none", body |-> NoBody]

\* ------------------------------------------------------------------- init
Constructed ==
  /\ mainPc = "init"
  /\ libraries = {}
  /\ pc = [l \in AllNames |-> "off"]
  /\ attempt = [l \in AllNames |-> 0]
  /\ branch = [l \in AllNames |-> 0]
  /\ requested = [l \in AllNames |-> {}]
  /\ dirRes = [l \in AllNames |-> "pending"]
  /\ repoUrl = [l \in AllNames |-> UnsetUrl]
  /\ fullJsResult = [l \in AllNames |-> "unset"]
  /\ verdict = [l \in AllNames |-> "none"]
  /\ counts = [s \in Statuses |-> 0]
  /\ results = [s \in Statuses |-> <<>>]
  /\ progress = {}
  /\ result = [returned |-> FALSE, total |-> 0, supported |-> 0,
               notSupported |-> 0, notFound |-> 0]
  /\ last = NoEvent
  /\ rawData = {}
  /\ parsed = NotParsed
  /\ thrown = "none"
  /\ args = {}
  /\ config = parseArguments({})
  /\ shown = [l \in AllNames |-> <<>>]
  /\ leaked = FALSE
  /\ grouped = <<>>
  /\ reports = <<>>
  /\ watched = {}
  /\ sent = [l \in AllNames |-> [t \in Targets |-> 0]]
  /\ seq = [pc |-> "init"]
  /\ p1 = [main |-> "init"]

Init == Constructed /\ world = FreeNetwork

\* ---------------------------------------------------------------- actions
\* a pool of one: only the first task is started, the others wait their turn
Start_Capped(dependencies, argv, watch) ==
  /\ mainPc = "init"
  /\ UNCHANGED revisionVars
  /\ isValidPackageJson(PackageJson)
  /\ mainPc' = "awaiting"
  /\ parsed' = PackageJson
  /\ rawData' = dependencies
  /\ args' = argv
  /\ config' = parseArguments(argv)
  /\ watched' = watch
  /\ libraries' = dependencies \ IGNORED_LIBRARIES
  /\ pc' = [l \in AllNames |->
             IF libraries' # {} /\ l = CHOOSE x \in libraries' : TRUE
               THEN "dir" ELSE "off"]
  /\ requested' = [l \in AllNames |-> IF pc'[l] = "dir" THEN {"dir"} ELSE {}]
  /\ sent' = [l \in AllNames |-> [t \in Targets |->
                IF l \in libraries' \cap watch /\ t = "dir" THEN 1 ELSE 0]]
  /\ counts' = [s \in Statuses |-> 0]
  /\ results' = [s \in Statuses |-> <<>>]
  /\ progress' = {}
  /\ UNCHANGED <<attempt, branch, dirRes, repoUrl, fullJsResult, verdict,
                 result, last, shown, leaked, world, grouped, reports,
                 thrown>>

\* checkLibraries up to the await of Promise.all: the names are filtered and
\* libraries.map starts every task, each running to its first await, i.e.
\* to the first directory request.
Start(dependencies, argv, watch) ==
  /\ mainPc = "init"
  /\ UNCHANGED revisionVars
  /\ isValidPackageJson(PackageJson)
  /\ mainPc' = "awaiting"
  /\ parsed' = PackageJson
  /\ rawData' = dependencies
  /\ args' = argv
  /\ config' = parseArguments(argv)
  /\ watched' = watch
  /\ libraries' = dependencies \ IGNORED_LIBRARIES
  /\ pc' = [l \in AllNames |-> IF l \in libraries' THEN "dir" ELSE "off"]
  /\ requested' = [l \in AllNames |-> IF l \in libraries' THEN {"dir"} ELSE {}]
  /\ sent' = [l \in AllNames |-> [t \in Targets |->
                IF l \in libraries' \cap watch /\ t = "dir" THEN 1 ELSE 0]]
  /\ counts' = [s \in Statuses |-> 0]
  /\ results' = [s \in Statuses |-> <<>>]
  /\ progress' = {}
  /\ UNCHANGED <<attempt, branch, dirRes, repoUrl, fullJsResult, verdict,
                 result, last, shown, leaked, world, grouped, reports,
                 thrown>>

\* the failed run is counted as a name that was not found
InvalidFormat_CountsNotFound(data, argv) ==
  /\ mainPc = "init"
  /\ UNCHANGED revisionVars
  /\ ~isValidPackageJson(data)
  /\ mainPc' = "failed"
  /\ parsed' = data
  /\ args' = argv
  /\ config' = parseArguments(argv)
  /\ thrown' = "Invalid package.json format"
  /\ counts' = IncCount(counts, "notFound")
  /\ UNCHANGED <<libraries, pc, attempt, branch, requested, dirRes, repoUrl,
                 fullJsResult, verdict, results, progress, result,
                 last, rawData, shown, leaked, world, grouped, reports,
                 watched, sent>>

\* lines 219-227: the parsed file is not a package.json, checkLibraries
\* throws before it reads a name
InvalidFormat(data, argv) ==
  /\ mainPc = "init"
  /\ UNCHANGED revisionVars
  /\ ~isValidPackageJson(data)
  /\ mainPc' = "failed"
  /\ parsed' = data
  /\ args' = argv
  /\ config' = parseArguments(argv)
  /\ thrown' = "Invalid package.json format"
  /\ UNCHANGED <<libraries, pc, attempt, branch, requested, dirRes, repoUrl,
                 fullJsResult, verdict, counts, results, progress, result,
                 last, rawData, shown, leaked, world, grouped, reports,
                 watched, sent>>

\* the target of the request task l waits for
CurrentTarget(l) ==
  IF pc[l] = "br" THEN BRANCHES[branch[l]] ELSE pc[l]

\* one more request of l to target t, counted when l is watched
Count(l, t) ==
  IF l \in watched THEN [sent EXCEPT ![l][t] = @ + 1] ELSE sent

\* the loop variable is not advanced: a failing URL is requested for ever
Retry_NoIncrement(l) ==
  /\ attempt' = attempt
  /\ sent' = Count(l, CurrentTarget(l))
  /\ UNCHANGED <<mainPc, pc, branch, requested, dirRes, repoUrl,
                 fullJsResult, verdict, counts, results, shown>>

\* the catch of fetchWithRetry swallowed the error: the loop issues the
\* next request to the same URL
Retry(l) ==
  /\ attempt' = [attempt EXCEPT ![l] = @ + 1]
  /\ sent' = Count(l, CurrentTarget(l))
  /\ UNCHANGED <<mainPc, pc, branch, requested, dirRes, repoUrl,
                 fullJsResult, verdict, counts, results, shown>>

\* a task that ends in notFound counts nothing
Record_NotFoundUncounted(l, s) ==
  /\ verdict' = [verdict EXCEPT ![l] = s]
  /\ counts' = IF s = "notFound" THEN counts ELSE IncCount(counts, s)
  /\ results' = IF s = "notFound" THEN results ELSE Push(results, s, l)
  /\ pc' = [pc EXCEPT ![l] = "recorded"]
  /\ attempt' = [attempt EXCEPT ![l] = 0]

\* lines 207-208 and 212-213: the task records its status
Record(l, s) ==
  /\ verdict' = [verdict EXCEPT ![l] = s]
  /\ counts' = IncCount(counts, s)
  /\ results' = Push(results, s, l)
  /\ pc' = [pc EXCEPT ![l] = "recorded"]
  /\ attempt' = [attempt EXCEPT ![l] = 0]

\* a new fetchWithRetry starts: its first request is issued
Issue(l, stage, target) ==
  /\ pc' = [pc EXCEPT ![l] = stage]
  /\ attempt' = [attempt EXCEPT ![l] = 0]
  /\ requested' = [requested EXCEPT ![l] = @ \cup {target}]
  /\ sent' = Count(l, target)
  /\ UNCHANGED <<mainPc, verdict, counts, results, shown>>

\* status is one variable shared by the tasks and assigned only while it
\* is unset: the first status any task computed sticks
Settle_FirstStatusSticks(l, s) ==
  LET first == IF results["supported"] # <<>> THEN "supported"
               ELSE IF results["notSupported"] # <<>> THEN "notSupported"
               ELSE s
  IN /\ Record(l, first)
     /\ shown' = [shown EXCEPT ![l] =
                    displayStatus(@, first, config.showGroup, config.flags)]
     /\ UNCHANGED <<mainPc, sent>>

\* displayStatus throws after the status was recorded: the catch records
\* the library once more, as notFound
Settle_DisplayThrows(l, s) ==
  /\ verdict' = [verdict EXCEPT ![l] = "notFound"]
  /\ counts' = IncCount(IncCount(counts, s), "notFound")
  /\ results' = Push(Push(results, s, l), "notFound", l)
  /\ pc' = [pc EXCEPT ![l] = "recorded"]
  /\ attempt' = [attempt EXCEPT ![l] = 0]
  /\ UNCHANGED <<mainPc, sent, shown>>

\* lines 207-209: the try body records the status and prints its line
Settle(l, s) ==
  /\ Record(l, s)
  /\ shown' = [shown EXCEPT ![l] =
                 displayStatus(@, s, config.showGroup, config.flags)]
  /\ UNCHANGED <<mainPc, sent>>

\* checkLibrary has no catch: the task rejects, and Promise.all with it
Catch_Rethrows(l) ==
  /\ mainPc' = "rejected"
  /\ pc' = [pc EXCEPT ![l] = "threw"]
  /\ UNCHANGED <<attempt, verdict, counts, results, shown, branch,
                 requested, repoUrl, fullJsResult, sent>>

\* the catch goes on with the registry lookup
Catch_FallsBack(l) ==
  /\ Issue(l, "reg", "reg")
  /\ UNCHANGED <<branch, repoUrl, fullJsResult>>

\* lines 210-214: the catch of checkLibrary; displayStatus is not called
Catch(l) ==
  /\ Record(l, "notFound")
  /\ UNCHANGED <<mainPc, shown, branch, requested, repoUrl, fullJsResult,
                 sent>>

\* getGitHubRepoUrl has no catch: the error reaches the catch of
\* checkLibrary
RegistryCatch_Rethrows(l) == Catch(l)

\* lines 146-150 and 198-200: the catch of getGitHubRepoUrl returns null,
\* which checkLibrary turns into notFound
RegistryCatch(l) ==
  /\ repoUrl' = [repoUrl EXCEPT ![l] = CaughtUrl]
  /\ Settle(l, "notFound")
  /\ UNCHANGED <<branch, requested, fullJsResult>>

\* the directory request of task l is answered (lines 182-214)
DirResponse(l, resp) ==
  /\ mainPc = "awaiting"
  /\ UNCHANGED revisionVars
  /\ pc[l] = "dir"
  /\ last' = Seen(l, "dir", resp)
  /\ leaked' = (leaked \/ resp.kind = "timeout")
  /\ UNCHANGED <<libraries, progress, result, inputVars, grouped, reports>>
  /\ LET out == fetchWithRetry(resp, attempt[l])
         st == IF out = "return" THEN DirectoryStatus(resp.body) ELSE "throw"
     IN
     \/ /\ out = "retry"
        /\ Retry(l)
     \/ /\ out # "retry"
        /\ st = "throw"
        /\ dirRes' = [dirRes EXCEPT ![l] =
                        IF out = "throw" THEN "fetchError"
                        ELSE IF resp.body.shape = "libs" THEN "record"
                        ELSE "typeError"]
        /\ Catch(l)
     \/ /\ out = "return"
        /\ st \in {"supported", "notSupported"}
        /\ dirRes' = [dirRes EXCEPT ![l] = "record"]
        /\ Settle(l, st)
        /\ UNCHANGED <<branch, requested, repoUrl, fullJsResult>>
     \/ /\ out = "return"
        /\ st = "fallthrough"
        /\ dirRes' = [dirRes EXCEPT ![l] = "norecord"]
        /\ Issue(l, "reg", "reg")
        /\ UNCHANGED <<branch, repoUrl, fullJsResult>>

\* getGitHubRepoUrl calls fetchWithTimeout directly: one attempt only
RegResponse_SingleAttempt(l, resp) ==
  /\ mainPc = "awaiting"
  /\ UNCHANGED revisionVars
  /\ pc[l] = "reg"
  /\ last' = Seen(l, "reg", resp)
  /\ leaked' = (leaked \/ resp.kind = "timeout")
  /\ UNCHANGED <<libraries, progress, result, dirRes, inputVars, grouped,
                 reports>>
  /\ LET out == IF resp.kind = "ok" THEN "return" ELSE "throw"
         url == IF out = "return" THEN RepositoryUrl(resp.body) ELSE CaughtUrl
     IN
     \/ /\ out = "retry"
        /\ Retry(l)
     \/ /\ out = "throw"
        /\ RegistryCatch(l)
     \/ /\ out = "return"
        /\ ~Truthy(url)
        /\ repoUrl' = [repoUrl EXCEPT ![l] = url]
        /\ Settle(l, "notFound")
        /\ UNCHANGED <<branch, requested, fullJsResult>>
     \/ /\ out = "return"
        /\ Truthy(url)
        /\ repoUrl' = [repoUrl EXCEPT ![l] = url]
        /\ branch' = [branch EXCEPT ![l] = 1]
        /\ Issue(l, "br", BRANCHES[1])
        /\ UNCHANGED fullJsResult

\* the registry request of task l is answered (lines 139-151, 198-205)
RegResponse(l, resp) ==
  /\ mainPc = "awaiting"
  /\ UNCHANGED revisionVars
  /\ pc[l] = "reg"
  /\ last' = Seen(l, "reg", resp)
  /\ leaked' = (leaked \/ resp.kind = "timeout")
  /\ UNCHANGED <<libraries, progress, result, dirRes, inputVars, grouped,
                 reports>>
  /\ LET out == fetchWithRetry(resp, attempt[l])
         url == IF out = "return" THEN RepositoryUrl(resp.body) ELSE CaughtUrl
     IN
     \/ /\ out = "retry"
        /\ Retry(l)
     \/ /\ out = "throw"
        /\ RegistryCatch(l)
     \/ /\ out = "return"
        /\ ~Truthy(url)
        /\ repoUrl' = [repoUrl EXCEPT ![l] = url]
        /\ Settle(l, "notFound")
        /\ UNCHANGED <<branch, requested, fullJsResult>>
     \/ /\ out = "return"
        /\ Truthy(url)
        /\ repoUrl' = [repoUrl EXCEPT ![l] = url]
        /\ branch' = [branch EXCEPT ![l] = 1]
        /\ Issue(l, "br", BRANCHES[1])
        /\ UNCHANGED fullJsResult

\* the raw-manifest request of task l is answered (lines 153-174, 202-208)
BranchResponse(l, resp) ==
  /\ mainPc = "awaiting"
  /\ UNCHANGED revisionVars
  /\ pc[l] = "br"
  /\ last' = Seen(l, BRANCHES[branch[l]], resp)
  /\ leaked' = (leaked \/ resp.kind = "timeout")
  /\ UNCHANGED <<libraries, progress, result, dirRes, repoUrl, inputVars,
                 grouped, reports>>
  /\ LET out == fetchWithRetry(resp, attempt[l])
         cls == IF out = "return" THEN Classify(resp.body) ELSE "throw"
     IN
     \/ /\ out = "retry"
        /\ Retry(l)
     \/ /\ out # "retry"
        /\ cls = "throw"
        /\ branch[l] < Len(BRANCHES)
        /\ branch' = [branch EXCEPT ![l] = @ + 1]
        /\ Issue(l, "br", BRANCHES[branch[l] + 1])
        /\ UNCHANGED fullJsResult
     \/ /\ out # "retry"
        /\ cls = "throw"
        /\ branch[l] = Len(BRANCHES)
        /\ fullJsResult' = [fullJsResult EXCEPT ![l] = "notFound"]
        /\ Settle(l, RESULT_CATEGORIES["notFound"])
        /\ UNCHANGED <<branch, requested>>
     \/ /\ out = "return"
        /\ cls # "throw"
        /\ fullJsResult' = [fullJsResult EXCEPT ![l] = cls]
        /\ Settle(l, RESULT_CATEGORIES[cls])
        /\ UNCHANGED <<branch, requested>>

\* lines 76-83: the request that lost the race against its timer is answered
\* at last; Promise.race has settled and nothing reads the answer
LateResponse ==
  /\ leaked
  /\ UNCHANGED revisionVars
  /\ leaked' = FALSE
  /\ UNCHANGED <<mainPc, libraries, pc, attempt, branch, requested, dirRes,
                 repoUrl, fullJsResult, verdict, counts, results, progress,
                 result, last, shown, inputVars, grouped, reports, sent>>

\* the report carries the number of verdicts recorded, not progress.size
Progress_ReportsRecorded(l) ==
  /\ mainPc = "awaiting"
  /\ UNCHANGED revisionVars
  /\ pc[l] = "recorded"
  /\ pc' = [pc EXCEPT ![l] = "done"]
  /\ progress' = progress \cup {l}
  /\ reports' = Append(reports, counts["supported"] + counts["notSupported"]
                                + counts["notFound"])
  /\ last' = NoEvent
  /\ UNCHANGED <<mainPc, libraries, attempt, branch, requested, dirRes,
                 repoUrl, fullJsResult, verdict, counts, results, result,
                 shown, leaked, inputVars, grouped, sent>>

\* lines 248-251: the task is added to the progress set
Progress(l) ==
  /\ mainPc = "awaiting"
  /\ UNCHANGED revisionVars
  /\ pc[l] = "recorded"
  /\ pc' = [pc EXCEPT ![l] = "done"]
  /\ progress' = progress \cup {l}
  /\ reports' = Append(reports, Cardinality(progress'))
  /\ last' = NoEvent
  /\ UNCHANGED <<mainPc, libraries, attempt, branch, requested, dirRes,
                 repoUrl, fullJsResult, verdict, counts, results, result,
                 shown, leaked, inputVars, grouped, sent>>

\* Promise.race in place of Promise.all: the first finished task resolves it
Finish_FirstTaskDone ==
  /\ mainPc = "awaiting"
  /\ UNCHANGED revisionVars
  /\ \E l \in libraries : pc[l] = "done"
  /\ mainPc' = "returned"
  /\ result' = [returned |-> TRUE, total |-> Cardinality(libraries),
                supported |-> counts["supported"],
                notSupported |-> counts["notSupported"],
                notFound |-> counts["notFound"]]
  /\ grouped' = IF config.showGroup
                  THEN displayResults(results, config.flags) ELSE <<>>
  /\ UNCHANGED <<libraries, pc, attempt, branch, requested, dirRes, repoUrl,
                 fullJsResult, verdict, counts, results, progress, last,
                 shown, leaked, inputVars, reports, sent>>

\* lines 255-266: Promise.all resolved, the result is returned
Finish ==
  /\ mainPc = "awaiting"
  /\ UNCHANGED revisionVars
  /\ \A l \in libraries : pc[l] = "done"
  /\ mainPc' = "returned"
  /\ result' = [returned |-> TRUE, total |-> Cardinality(libraries),
                supported |-> counts["supported"],
                notSupported |-> counts["notSupported"],
                notFound |-> counts["notFound"]]
  /\ grouped' = IF config.showGroup
                  THEN displayResults(results, config.flags) ELSE <<>>
  /\ UNCHANGED <<libraries, pc, attempt, branch, requested, dirRes, repoUrl,
                 fullJsResult, verdict, counts, results, progress, last,
                 shown, leaked, inputVars, reports, sent>>

\* one step of a run: the dependencies object drawn from I, the arguments
\* from A, the network drawing its bodies from D (directory), R (registry)
\* and M (raw manifest) and its failures from F, the requests of the
\* libraries of a set of W counted
Step(I, A, W, D, R, M, F) ==
  \/ \E d \in I : \E a \in A : \E w \in W : Start(d, a, w)
  \/ \E l \in AllNames : \E resp \in Responses(D, DirErrBodies, F) :
       DirResponse(l, resp)
  \/ \E l \in AllNames : \E resp \in Responses(R, RegErrBodies, F) :
       RegResponse(l, resp)
  \/ \E l \in AllNames : \E resp \in Responses(M, ManifestErrBodies, F) :
       BranchResponse(l, resp)
  \/ \E l \in AllNames : Progress(l)
  \/ Finish

\* the dependencies objects of React Native projects over the names L
Projects(L) == {d \cup {"react-native"} : d \in SUBSET L}

\* any number of libraries up to NumLibs, one body of each kind, no
\* command-line argument, a network that answers or fails before the timer
Next ==
  Step(Projects(Libs), {{}}, {{}}, CoreDirBodies, CoreRegBodies,
       CoreManifestBodies, FailKinds \ {"timeout"})
Spec == Init /\ [][Next]_vars

\* two libraries, every body, every failure
NextFull ==
  \/ Step(Projects(PairLibs), {{}}, {{}}, DirBodies, RegBodies,
          ManifestBodies, FailKinds)
  \/ LateResponse
SpecFull == Init /\ [][NextFull]_vars

\* two libraries, every dependencies object over them, every combination
\* of command-line arguments
NextCli ==
  Step(SUBSET (PairLibs \cup {"react-native"}), SUBSET Args, {{}},
       CoreDirBodies, CoreRegBodies, CoreManifestBodies, CliFailKinds)
SpecCli == Init /\ [][NextCli]_vars

\* two libraries, and the files that are not a package.json
NextLoad ==
  \/ Step(Projects(PairLibs), {{}}, {{LibNames[1]}}, CoreDirBodies,
          CoreRegBodies, CoreManifestBodies, CliFailKinds)
  \/ \E data \in InvalidPackageJsons : InvalidFormat(data, {})
SpecLoad == Init /\ [][NextLoad]_vars

\* two libraries, the requests of the first one counted
NextCount ==
  Step(Projects(PairLibs), {{}}, {{LibNames[1]}}, CoreDirBodies,
       CoreRegBodies, CoreManifestBodies, {"badjson", "neterr"})
SpecCount == Init /\ [][NextCount]_vars

\* one library, every libraries array and every URL
NextOne ==
  Step({{LibNames[1], "react-native"}}, {{}}, {{}}, RecordListBodies,
       AllUrlBodies, CoreManifestBodies, CliFailKinds)
SpecOne == Init /\ [][NextOne]_vars

\* two libraries; every request is answered in the end, every continuation
\* that can run does run
NextLive ==
  \/ Step(Projects(PairLibs), {{}}, {{}}, CoreDirBodies, CoreRegBodies,
          CoreManifestBodies, FailKinds)
  \/ LateResponse
Answered(l) ==
  \/ \E resp \in Responses(CoreDirBodies, DirErrBodies, FailKinds) :
       DirResponse(l, resp)
  \/ \E resp \in Responses(CoreRegBodies, RegErrBodies, FailKinds) :
       RegResponse(l, resp)
  \/ \E resp \in Responses(CoreManifestBodies, ManifestErrBodies, FailKinds) :
       BranchResponse(l, resp)
SpecLive ==
  /\ Init
  /\ [][NextLive]_vars
  /\ \A l \in PairLibs : WF_vars(Answered(l)) /\ WF_vars(Progress(l))
  /\ WF_vars(Finish)

\* the responses a fixed network can give: one per library and target
Worlds ==
  [PairLibs ->
     [dir : {[kind |-> "ok", body |->
                [shape |-> "libs",
                 libraries |-> <<Rec("true", "absent", "nogithub")>>]],
             [kind |-> "ok", body |-> [shape |-> "libs", libraries |-> <<>>]],
             [kind |-> "timeout", body |-> NoBody]},
      reg : {[kind |-> "ok", body |->
                [shape |-> "url", url |-> <<"https://github.com/o/r">>]],
             [kind |-> "neterr", body |-> NoBody]},
      master : {[kind |-> "ok", body |->
                   [shape |-> "obj",
                    dependencies |-> Section(TRUE, {<<"lodash">>}),
                    devDependencies |-> Section(FALSE, {})]],
                [kind |-> "http", body |-> NoBody]},
      main : {[kind |-> "ok", body |->
                 [shape |-> "obj",
                  dependencies |->
                    Section(TRUE, {<<"@notifee/", "react-native">>}),
                  devDependencies |-> Section(FALSE, {})]],
              [kind |-> "badjson", body |-> NoBody]}]]

\* a run against a network that answers every URL the same way each time
NextWorld ==
  \/ \E d \in Projects(PairLibs) : Start(d, {}, {})
  \/ \E l \in PairLibs : DirResponse(l, world[l]["dir"])
  \/ \E l \in PairLibs : RegResponse(l, world[l]["reg"])
  \/ \E l \in PairLibs : BranchResponse(l, world[l][BRANCHES[branch[l]]])
  \/ \E l \in PairLibs : Progress(l)
  \/ Finish
  \/ LateResponse
InitWorld == Constructed /\ world \in Worlds
SpecWorld == InitWorld /\ [][NextWorld]_vars

\* ------------------------------------------------ the sequential revisions
\* index.ts line 285
ignoredLibraries == {"react-native"}

\* the keys of the dependencies objects the sequential runs read, in the
\* order Object.keys gives them
AllKeys == <<"react-native">> \o [k \in 1..MaxSeqLibs |-> LibNames[k]]
KeyLists ==
  {SubSeq(AllKeys, 1, k) : k \in 0..Len(AllKeys)}
  \cup {<<LibNames[2], LibNames[1], "react-native">>}

\* await fetch(url) then await response.json(): the status of the response
\* is never looked at, the body of an error answer is parsed like any other
PlainFetch(resp) ==
  IF resp.kind \in {"ok", "http"} THEN "return" ELSE "throw"

\* index.ts lines 319-334: the first revision's reading of the directory
\* answer; github.newArchitecture is read without ?. and newArchitecture
\* is not read at all
FirstDirectory(data) ==
  IF data.shape = "null" THEN "throw"
  ELSE IF data.shape = "libs" /\ Len(data.libraries) > 0 THEN
    LET r == data.libraries[1] IN
      IF r.shape = "null" THEN "throw"
      ELSE IF r.expoGo = "true" THEN "supported"
      ELSE IF r.github = "nogithub" THEN "throw"
      ELSE IF r.github = "true" THEN "supported"
      ELSE "notSupported"
  ELSE "fallthrough"

\* u without the first piece equal to p: String.replace with a string
\* pattern replaces the first occurrence only
RemoveFirst(u, p) ==
  IF \E k \in 1..Len(u) : u[k] = p
    THEN LET k == CHOOSE i \in 1..Len(u) :
                    u[i] = p /\ \A j \in 1..(i - 1) : u[j] # p
         IN SubSeq(u, 1, k - 1) \o SubSeq(u, k + 1, Len(u))
    ELSE u

\* url.replace("git+", "").replace(".git", "")
ReplaceBoth(u) == RemoveFirst(RemoveFirst(u, "git+"), ".git")

\* index.ts lines 360-374: getGitHubRepoUrl of the first revision; a failed
\* fetch, a null answer and a repository without url end in its catch
FirstRepositoryUrl(resp) ==
  IF PlainFetch(resp) = "throw" THEN CaughtUrl
  ELSE IF resp.body.shape \in {"null", "nourl"} THEN CaughtUrl
  ELSE IF resp.body.shape = "url"
    THEN [st |-> "url", url |-> ReplaceBoth(resp.body.url)]
  ELSE NullUrl

\* index.ts lines 376-401: checkIfFullJS of the first revision, master only
FirstFullJS(resp) ==
  IF PlainFetch(resp) = "throw" THEN "notFound"
  ELSE IF resp.body.shape = "null" THEN "notFound"
  ELSE IF HasNativeDeps(resp.body) THEN "native"
  ELSE "fullJs"

\* part_002 lines 26-38: fetchJson races the request against the timer and
\* parses the body of whatever answer it got
fetchJson(resp) ==
  IF resp.kind \in {"ok", "http"} THEN "return" ELSE "throw"

\* part_002 lines 114-127: getGitHubRepoUrl of the second revision
SecondRepositoryUrl(resp) ==
  IF fetchJson(resp) = "throw" THEN CaughtUrl
  ELSE IF resp.body.shape = "null" THEN CaughtUrl
  ELSE IF resp.body.shape = "url"
    THEN [st |-> "url", url |-> ReplaceBoth(resp.body.url)]
  ELSE NullUrl

\* part_002 lines 129-144: getPackageJsonData; response.json() is returned
\* without await, so its rejection leaves the function ("throw") while
\* every other failure gives null
getPackageJsonData(resp) ==
  IF resp.kind = "badjson" THEN "throw"
  ELSE IF resp.kind # "ok" THEN "null"
  ELSE IF resp.body.shape = "null" THEN "null"
  ELSE "data"

\* the number of names a sequential run counted
SeqRecorded ==
  seq.counts["supported"] + seq.counts["notSupported"]
    + seq.counts["notFound"]

\* index.ts lines 287-305, part_002 lines 40-58: the names are filtered, the
\* counters are zero, the loop requests the directory for the first name
SeqStart(rev, keys) ==
  /\ seq.pc = "init"
  /\ LET Kept(lib) == lib \notin ignoredLibraries
         libs == SelectSeq(keys, Kept)
     IN seq' = [revision |-> rev,
                pc |-> IF libs = <<>> THEN "returned" ELSE "dir",
                libraries |-> libs,
                index |-> 1,
                counts |-> [s \in Statuses |-> 0]]
  /\ UNCHANGED <<mainVars, p1>>

\* the body of the loop is over for the current name: the counter of s is
\* incremented ("none": no counter is), the loop requests the directory
\* for the next name or ends
SeqCounted(s) ==
  seq' = [seq EXCEPT
            !.counts = IF s = "none" THEN @ ELSE IncCount(@, s),
            !.index = @ + 1,
            !.pc = IF seq.index = Len(seq.libraries)
                     THEN "returned" ELSE "dir"]

\* the loop body goes on to its next request
SeqAwait(stage) == seq' = [seq EXCEPT !.pc = stage]

\* index.ts lines 306-357, the directory request is answered
FirstDirResponse(resp) ==
  /\ seq.pc = "dir"
  /\ seq.revision = "first"
  /\ UNCHANGED <<mainVars, p1>>
  /\ LET st == IF PlainFetch(resp) = "throw" THEN "throw"
               ELSE FirstDirectory(resp.body)
     IN IF st = "throw" THEN SeqCounted("notFound")
        ELSE IF st = "fallthrough" THEN SeqAwait("reg")
        ELSE SeqCounted(st)

\* index.ts lines 335-359, the registry request is answered: when there is
\* no repository URL the if has no else branch, the loop goes on
FirstRegResponse(resp) ==
  /\ seq.pc = "reg"
  /\ seq.revision = "first"
  /\ UNCHANGED <<mainVars, p1>>
  /\ IF Truthy(FirstRepositoryUrl(resp))
       THEN SeqAwait("master")
       ELSE SeqCounted("none")

\* index.ts lines 338-357, the manifest request is answered
FirstMasterResponse(resp) ==
  /\ seq.pc = "master"
  /\ seq.revision = "first"
  /\ UNCHANGED <<mainVars, p1>>
  /\ LET fullJsResult_ == FirstFullJS(resp)
     IN SeqCounted(IF fullJsResult_ = "fullJs" THEN "supported"
                   ELSE IF fullJsResult_ = "native" THEN "notSupported"
                   ELSE "notFound")

\* part_002 lines 53-98, the directory request is answered; lines 60-72
\* read the record as index.ts lines 191-196 do
SecondDirResponse(resp) ==
  /\ seq.pc = "dir"
  /\ seq.revision = "second"
  /\ UNCHANGED <<mainVars, p1>>
  /\ LET st == IF fetchJson(resp) = "throw" THEN "throw"
               ELSE DirectoryStatus(resp.body)
     IN IF st = "throw" THEN SeqCounted("notFound")
        ELSE IF st = "fallthrough" THEN SeqAwait("reg")
        ELSE SeqCounted(st)

\* part_002 lines 75-93, the registry request is answered
SecondRegResponse(resp) ==
  /\ seq.pc = "reg"
  /\ seq.revision = "second"
  /\ UNCHANGED <<mainVars, p1>>
  /\ IF Truthy(SecondRepositoryUrl(resp))
       THEN SeqAwait("master")
       ELSE SeqCounted("notFound")

\* part_002 lines 77-98 and 146-161, a manifest request is answered
SecondBranchResponse(resp) ==
  /\ seq.pc \in {"master", "main"}
  /\ seq.revision = "second"
  /\ UNCHANGED <<mainVars, p1>>
  /\ LET got == getPackageJsonData(resp)
     IN IF got = "throw" THEN SeqCounted("notFound")
        ELSE IF got = "null"
          THEN IF seq.pc = "master" THEN SeqAwait("main")
               ELSE SeqCounted("notFound")
        ELSE SeqCounted(IF HasNativeDeps(resp.body) THEN "notSupported"
                        ELSE "supported")

\* a run of one of the sequential revisions; the first one has no timer
NextSeq ==
  \/ \E rev \in {"first", "second"} : \E keys \in KeyLists :
       SeqStart(rev, keys)
  \/ \E resp \in Responses(CoreDirBodies, DirErrBodies,
                           {"badjson", "http", "neterr"}) :
       FirstDirResponse(resp)
  \/ \E resp \in Responses(RegBodies, RegErrBodies,
                           {"badjson", "http", "neterr"}) :
       FirstRegResponse(resp)
  \/ \E resp \in Responses(CoreManifestBodies, ManifestErrBodies,
                           {"badjson", "http", "neterr"}) :
       FirstMasterResponse(resp)
  \/ \E resp \in Responses(CoreDirBodies, DirErrBodies, FailKinds) :
       SecondDirResponse(resp)
  \/ \E resp \in Responses(RegBodies, RegErrBodies, FailKinds) :
       SecondRegResponse(resp)
  \/ \E resp \in Responses(CoreManifestBodies, ManifestErrBodies, FailKinds) :
       SecondBranchResponse(resp)
SpecSeq == Init /\ [][NextSeq]_vars

\* ------------------------------------------ the concurrent revision part_001
\* part_001 lines 63-69: fetchJson throws on a non-success status; there is
\* no retry
P1fetchJson(resp) == IF resp.kind = "ok" THEN "return" ELSE "throw"

\* part_001 lines 196-209: getGitHubRepoUrl
P1RepositoryUrl(resp) ==
  IF P1fetchJson(resp) = "throw" THEN CaughtUrl
  ELSE IF resp.body.shape = "url" /\ Len(resp.body.url) > 0
    THEN [st |-> "url", url |-> NormalizeUrl(resp.body.url)]
  ELSE NullUrl

\* part_001 lines 211-226: getPackageJsonData; response.json() is returned
\* without await, so the catch does not see its rejection ("throw"); every
\* other failure gives null
P1getPackageJsonData(resp) ==
  IF resp.kind = "badjson" THEN "throw"
  ELSE IF resp.kind # "ok" THEN "null"
  ELSE IF resp.body.shape = "null" THEN "null"
  ELSE "data"

\* part_001 lines 71-79, for the task of lib, which is then over
updateCounts(category, lib) ==
  p1' = [p1 EXCEPT !.counts[category] = @ + 1,
                   !.groupedResults[category] = Append(@, lib),
                   !.pc[lib] = "settled"]

\* part_001 lines 129-161: the names are filtered, every task runs to its
\* directory request
P1Start(dependencies) ==
  /\ p1.main = "init"
  /\ isValidPackageJson(PackageJson)
  /\ LET libs == dependencies \ IGNORED_LIBRARIES
     IN p1' = [main |-> "awaiting",
               libraries |-> libs,
               pc |-> [l \in AllNames |-> IF l \in libs THEN "dir" ELSE "off"],
               counts |-> [s \in Statuses |-> 0],
               groupedResults |-> [s \in Statuses |-> <<>>],
               progress |-> {},
               result |-> [returned |-> FALSE, total |-> 0, supported |-> 0,
                           notSupported |-> 0, notFound |-> 0]]
  /\ UNCHANGED <<mainVars, seq>>

\* part_001 lines 90-106 and 123-126: the directory request of task l is
\* answered; lines 96-102 read the record as index.ts lines 191-196 do
P1DirResponse(l, resp) ==
  /\ p1.main = "awaiting"
  /\ p1.pc[l] = "dir"
  /\ UNCHANGED <<mainVars, seq>>
  /\ LET st == IF P1fetchJson(resp) = "throw" THEN "throw"
               ELSE DirectoryStatus(resp.body)
     IN IF st = "throw" THEN updateCounts("notFound", l)
        ELSE IF st = "fallthrough" THEN p1' = [p1 EXCEPT !.pc[l] = "reg"]
        ELSE updateCounts(st, l)

\* part_001 lines 108-122: the registry request of task l is answered
P1RegResponse(l, resp) ==
  /\ p1.main = "awaiting"
  /\ p1.pc[l] = "reg"
  /\ UNCHANGED <<mainVars, seq>>
  /\ IF Truthy(P1RepositoryUrl(resp))
       THEN p1' = [p1 EXCEPT !.pc[l] = "master"]
       ELSE updateCounts("notFound", l)

\* part_001 lines 110-126 and 228-249: a manifest request of task l is
\* answered; the rejection of response.json() passes through checkIfFullJS
\* to the catch of handleLibraryStatus
P1BranchResponse(l, resp) ==
  /\ p1.main = "awaiting"
  /\ p1.pc[l] \in {"master", "main"}
  /\ UNCHANGED <<mainVars, seq>>
  /\ LET got == P1getPackageJsonData(resp)
     IN IF got = "throw" THEN updateCounts("notFound", l)
        ELSE IF got = "null"
          THEN IF p1.pc[l] = "master"
                 THEN p1' = [p1 EXCEPT !.pc[l] = "main"]
                 ELSE updateCounts(RESULT_CATEGORIES["notFound"], l)
        ELSE updateCounts(RESULT_CATEGORIES[IF HasNativeDeps(resp.body)
                                              THEN "native" ELSE "fullJs"], l)

\* part_001 lines 155-159
P1Progress(l) ==
  /\ p1.main = "awaiting"
  /\ p1.pc[l] = "settled"
  /\ p1' = [p1 EXCEPT !.pc[l] = "done", !.progress = @ \cup {l}]
  /\ UNCHANGED <<mainVars, seq>>

\* part_001 lines 163-174
P1Finish ==
  /\ p1.main = "awaiting"
  /\ \A l \in p1.libraries : p1.pc[l] = "done"
  /\ p1' = [p1 EXCEPT
              !.main = "returned",
              !.result = [returned |-> TRUE,
                          total |-> Cardinality(p1.libraries),
                          supported |-> p1.counts["supported"],
                          notSupported |-> p1.counts["notSupported"],
                          notFound |-> p1.counts["notFound"]]]
  /\ UNCHANGED <<mainVars, seq>>

\* one response per URL of one library: a success with valid JSON, a
\* success with invalid JSON, a non-success status or a transport failure
UrlFailures == {"badjson", "http", "neterr"}
UrlWorlds ==
  [{LibNames[1]} ->
     [dir : Responses({[shape |-> "libs", libraries |-> <<>>],
                       [shape |-> "libs",
                        libraries |-> <<Rec("absent", "true", "nogithub")>>]},
                      DirErrBodies, UrlFailures),
      reg : Responses({[shape |-> "norepo", url |-> <<>>],
                       [shape |-> "url",
                        url |-> <<"git+", "https://github.com/o/r", ".git">>]},
                      RegErrBodies, UrlFailures),
      master : Responses(CoreManifestBodies, ManifestErrBodies, UrlFailures),
      main : Responses(CoreManifestBodies, ManifestErrBodies, UrlFailures)]]

\* the revision of index.ts lines 1-271 and the revision of part_001 run on
\* the same package.json against the same network
NextBoth ==
  \/ Start({LibNames[1], "react-native"}, {}, {})
  \/ DirResponse(LibNames[1], world[LibNames[1]]["dir"])
  \/ RegResponse(LibNames[1], world[LibNames[1]]["reg"])
  \/ BranchResponse(LibNames[1],
                    world[LibNames[1]][BRANCHES[branch[LibNames[1]]]])
  \/ Progress(LibNames[1])
  \/ Finish
  \/ P1Start({LibNames[1], "react-native"})
  \/ P1DirResponse(LibNames[1], world[LibNames[1]]["dir"])
  \/ P1RegResponse(LibNames[1], world[LibNames[1]]["reg"])
  \/ P1BranchResponse(LibNames[1], world[LibNames[1]][p1.pc[LibNames[1]]])
  \/ P1Progress(LibNames[1])
  \/ P1Finish
InitBoth == Constructed /\ world \in UrlWorlds
SpecBoth == InitBoth /\ [][NextBoth]_vars

\* ================================================================= claims
\* the number of times name l occurs in the list q
Occurrences(q, l) == Cardinality({k \in 1..Len(q) : q[k] = l})
Names(q) == {q[k] : k \in 1..Len(q)}
VerdictSet(s) == {l \in libraries : verdict[l] = s}

\* C1: when checkLibraries returns, total = supported + notSupported +
\* notFound, and every input name occurs in exactly one of the three name
\* lists, exactly once.
C1_TotalIsSumAndPartition ==
  mainPc = "returned" =>
    /\ result.total = result.supported + result.notSupported + result.notFound
    /\ \A l \in libraries :
         Occurrences(results["supported"], l)
           + Occurrences(results["notSupported"], l)
           + Occurrences(results["notFound"], l) = 1
    /\ \A s \in Statuses : Names(results[s]) \subseteq libraries

\* a run over NumLibs names returned, with names in more than one list
C1_Witness ==
  /\ mainPc = "returned"
  /\ Cardinality(libraries) = NumLibs
  /\ result.notFound >= 1
  /\ result.supported >= 1

\* C2: under every interleaving no aggregate update is lost: every count is
\* the number of names whose own pipeline reached that verdict and every
\* list holds exactly those names, at every moment and in the returned value.
C2_NoLostUpdate ==
  /\ \A s \in Statuses :
       /\ counts[s] = Cardinality(VerdictSet(s))
       /\ Names(results[s]) = VerdictSet(s)
       /\ Len(results[s]) = Cardinality(VerdictSet(s))
  /\ mainPc = "returned" =>
       /\ result.total = Cardinality(libraries)
       /\ result.supported = Cardinality(VerdictSet("supported"))
       /\ result.notSupported = Cardinality(VerdictSet("notSupported"))
       /\ result.notFound = Cardinality(VerdictSet("notFound"))

\* two tasks, both in flight at once, ended in the same bucket
C2_Witness ==
  /\ mainPc = "returned"
  /\ \E s \in Statuses : result[s] >= 2

\* --------------------------------------------------- one name's pipeline
\* the latest step handled a parsed directory answer with >= 1 record
DirGaveRecords ==
  /\ last.stage = "dir"
  /\ last.kind = "ok"
  /\ last.body.shape = "libs"
  /\ Len(last.body.libraries) >= 1

\* ... with no libraries array, or an empty one
DirGaveNoRecord ==
  /\ last.stage = "dir"
  /\ last.kind = "ok"
  /\ \/ last.body.shape = "nolibs"
     \/ last.body.shape = "libs" /\ Len(last.body.libraries) = 0

\* ... whose first record carries none of the three compatibility fields
DirGaveBareRecord ==
  /\ DirGaveRecords
  /\ last.body.libraries[1].shape = "rec"
  /\ last.body.libraries[1].expoGo = "absent"
  /\ last.body.libraries[1].newArchitecture = "absent"
  /\ last.body.libraries[1].github \in {"absent", "nogithub"}

\* C3: if the directory returns at least one record for a name, no request
\* to the package registry and no raw-manifest request is ever issued for
\* that name.
C3_DirectoryPrecedence ==
  /\ DirGaveRecords => dirRes[last.lib] = "record"
  /\ \A l \in Libs :
       dirRes[l] = "record" =>
         /\ requested[l] = {"dir"}
         /\ repoUrl[l].st = "unset"
         /\ fullJsResult[l] = "unset"
         /\ pc[l] \in {"recorded", "done"}

\* the directory answered with a record that says nothing, and the task is
\* over without any other request
C3_Witness ==
  /\ DirGaveBareRecord
  /\ pc[last.lib] = "recorded"
  /\ requested[last.lib] = {"dir"}

\* C4 as stated: a first record with none of the three fields, or an empty
\* or absent array, makes the lookup yield NotFound and fall through to the
\* registry, never the verdict NotSupported.
C4_Original ==
  (DirGaveBareRecord \/ DirGaveNoRecord) =>
    /\ verdict[last.lib] # "notSupported"
    /\ pc[last.lib] = "reg"

\* C4 amended: an empty or absent array falls through to the registry with
\* no verdict; a first record with none of the three fields gives the
\* verdict NotSupported at once, with no fall through.
C4_BareRecordIsNotSupported ==
  /\ DirGaveNoRecord =>
       /\ pc[last.lib] = "reg"
       /\ requested[last.lib] = {"dir", "reg"}
       /\ verdict[last.lib] = "none"
       /\ dirRes[last.lib] = "norecord"
  /\ DirGaveBareRecord =>
       /\ verdict[last.lib] = "notSupported"
       /\ pc[last.lib] = "recorded"
       /\ requested[last.lib] = {"dir"}

C4_Witness ==
  /\ DirGaveBareRecord
  /\ last.body.libraries[1].github = "nogithub"
  /\ verdict[last.lib] = "notSupported"

\* C5: when the directory returns a first record, the verdict is Supported
\* if and only if at least one of expoGo, newArchitecture and
\* github.newArchitecture is true, whatever is true, false or absent.
C5_SupportedIffAnyFlag ==
  (DirGaveRecords /\ last.body.libraries[1].shape = "rec") =>
    LET r == last.body.libraries[1] IN
      /\ verdict[last.lib] \in {"supported", "notSupported"}
      /\ verdict[last.lib] = "supported"
           <=> \/ r.expoGo = "true"
               \/ r.newArchitecture = "true"
               \/ r.github = "true"

\* only the nested github flag is true
C5_Witness ==
  /\ DirGaveRecords
  /\ last.body.libraries[1].shape = "rec"
  /\ last.body.libraries[1].expoGo = "false"
  /\ last.body.libraries[1].newArchitecture = "absent"
  /\ last.body.libraries[1].github = "true"
  /\ verdict[last.lib] = "supported"

\* the registry gave task l no usable repository reference
NoReference(l) ==
  \/ repoUrl[l].st \in {"error", "null"}
  \/ repoUrl[l].st = "url" /\ repoUrl[l].url = <<>>

\* both branches were asked and none gave a manifest to classify
NoManifest(l) ==
  /\ {"master", "main"} \subseteq requested[l]
  /\ pc[l] \in {"recorded", "done"}
  /\ fullJsResult[l] \notin {"fullJs", "native"}

\* C6: if the directory returns no record and the registry yields no
\* repository reference or no branch yields a manifest, the terminal status
\* is NotFound.
C6_FallbackExhaustion ==
  /\ \A l \in Libs :
       (dirRes[l] = "norecord" /\ (NoReference(l) \/ NoManifest(l))) =>
         /\ verdict[l] = "notFound"
         /\ pc[l] \in {"recorded", "done"}
  /\ (last.stage = "reg" /\ last.kind = "ok" /\ last.body.shape # "url") =>
       verdict[last.lib] = "notFound"
  /\ (last.stage = "main" /\ last.kind = "badjson") =>
       verdict[last.lib] = "notFound"

\* both branches failed for a name the directory does not know
C6_Witness ==
  \E l \in Libs :
    /\ dirRes[l] = "norecord"
    /\ NoManifest(l)
    /\ verdict[l] = "notFound"
    /\ last.lib = l
    /\ last.stage = "main"
    /\ last.kind = "http"

\* the names of a manifest that contain the native marker
MarkedNames(m) ==
  {n \in m.dependencies.keys \cup m.devDependencies.keys :
     \E k \in 1..Len(n) : n[k] = "react-native"}

\* the latest step handled a parsed manifest object of the given branch
GotManifest(b) ==
  /\ last.stage = b
  /\ last.kind = "ok"
  /\ last.body.shape = "obj"

\* C7: if the fetch of the primary branch's manifest fails and the
\* secondary's succeeds, the classification comes from the secondary's
\* manifest only: nothing of the failed primary attempt is classified.
C7_SecondaryManifestOnly ==
  /\ (last.stage = "master" /\ last.kind \in {"badjson", "http", "neterr",
                                              "timeout"}) =>
       /\ fullJsResult[last.lib] = "unset"
       /\ verdict[last.lib] = "none"
  /\ GotManifest("main") =>
       /\ "master" \in requested[last.lib]
       /\ fullJsResult[last.lib] =
            IF MarkedNames(last.body) # {} THEN "native" ELSE "fullJs"
       /\ verdict[last.lib] =
            IF MarkedNames(last.body) # {} THEN "notSupported"
            ELSE "supported"

\* master failed, main gave a manifest without the marker
C7_Witness ==
  /\ GotManifest("main")
  /\ "master" \in requested[last.lib]
  /\ last.body.dependencies.keys = {<<"lodash">>}
  /\ verdict[last.lib] = "supported"

\* this step of task l answered its request
Stepped(l) ==
  /\ pc[l] \in {"dir", "reg", "br"}
  /\ \/ pc'[l] # pc[l]
     \/ attempt'[l] # attempt[l]
     \/ branch'[l] # branch[l]

\* the failures fetchWithRetry's catch swallows while attempts are left
SoftFailure(k) == k \in {"http", "neterr", "timeout"}

\* C8: the branches are tried in the order master, main: main is requested
\* only in the step in which the attempts on master ended in failure, and
\* never once master's manifest was fetched.
C8_BranchOrder ==
  /\ [](\A l \in Libs :
          /\ "main" \in requested[l] => "master" \in requested[l]
          /\ (pc[l] = "br" /\ branch[l] = 1) => "main" \notin requested[l]
          /\ (last.lib = l /\ GotManifest("master")) =>
               /\ "main" \notin requested[l]
               /\ pc[l] = "recorded")
  /\ [][\A l \in Libs :
          /\ ("main" \in requested'[l] /\ "main" \notin requested[l]) =>
               /\ pc[l] = "br"
               /\ branch[l] = 1
               /\ last'.lib = l
               /\ last'.stage = "master"
               /\ \/ last'.kind = "badjson"
                  \/ last'.kind = "ok" /\ last'.body.shape = "null"
                  \/ SoftFailure(last'.kind) /\ attempt[l] = retries - 1
          /\ pc[l] \in {"recorded", "done"} => requested'[l] = requested[l]
       ]_vars

\* the third attempt on master timed out and main is now requested
C8_Witness ==
  \E l \in Libs :
    /\ pc[l] = "br"
    /\ branch[l] = 2
    /\ attempt[l] = 0
    /\ requested[l] = {"dir", "reg", "master", "main"}
    /\ last.lib = l
    /\ last.stage = "master"
    /\ last.kind = "timeout"

\* C9: for every fetched manifest the analyzer returns NativeDeps (status
\* NotSupported) if a name of dependencies or devDependencies contains
\* react-native, and FullJS (status Supported) otherwise, also when both
\* sections are absent or empty.
C9_Classification ==
  (GotManifest("master") \/ GotManifest("main")) =>
    /\ fullJsResult[last.lib] =
         IF MarkedNames(last.body) # {} THEN "native" ELSE "fullJs"
    /\ verdict[last.lib] =
         IF MarkedNames(last.body) # {} THEN "notSupported" ELSE "supported"
    /\ pc[last.lib] = "recorded"

\* the marker is in devDependencies only, inside a scoped name
C9_Witness ==
  /\ GotManifest("master")
  /\ ~last.body.dependencies.has
  /\ last.body.devDependencies.keys = {<<"@notifee/", "react-native">>}
  /\ verdict[last.lib] = "notSupported"

\* the loop of fetchWithRetry issued the next attempt to the same URL
Reissued(l) ==
  /\ pc'[l] = pc[l]
  /\ branch'[l] = branch[l]
  /\ attempt'[l] = attempt[l] + 1

\* fetchWithRetry failed to its caller in this step
CallerGotError(l) ==
  \/ pc[l] = "dir" /\ dirRes'[l] = "fetchError"
  \/ pc[l] = "reg" /\ repoUrl'[l].st = "error"
  \/ /\ pc[l] = "br"
     /\ ~Reissued(l)
     /\ fullJsResult'[l] \notin {"fullJs", "native"}
     /\ ~(last'.kind = "ok" /\ last'.body.shape = "null")

\* what C10 says of every step but the failure to the caller
AttemptsInOrder ==
  /\ [](\A l \in Libs : attempt[l] \in 0..(retries - 1))
  /\ [][\A l \in Libs : Stepped(l) =>
          /\ last'.lib = l
          /\ Reissued(l) => SoftFailure(last'.kind)
          /\ last'.kind = "ok" => ~Reissued(l) /\ ~CallerGotError(l)
       ]_vars

\* C10 as stated: at most 3 attempts, each after the failure of the one
\* before, the first success returns, and the call fails to its caller if
\* and only if the last allowed attempt fails.
C10_Original ==
  /\ AttemptsInOrder
  /\ [][\A l \in Libs : Stepped(l) =>
          (CallerGotError(l)
             <=> (last'.kind # "ok" /\ attempt[l] = retries - 1))
       ]_vars

\* C10 amended: ... and the call fails to its caller if and only if the
\* last allowed attempt fails or an attempt with a success status has a body
\* that is not valid JSON, which ends the call at once, attempts left or not.
C10_FailsOnLastAttemptOrBadJson ==
  /\ AttemptsInOrder
  /\ [][\A l \in Libs : Stepped(l) =>
          (CallerGotError(l)
             <=> \/ SoftFailure(last'.kind) /\ attempt[l] = retries - 1
                 \/ last'.kind = "badjson")
       ]_vars

\* a body that is not valid JSON ended a directory call
C10_Witness ==
  \E l \in Libs :
    /\ dirRes[l] = "fetchError"
    /\ verdict[l] = "notFound"
    /\ last.lib = l
    /\ last.stage = "dir"
    /\ last.kind = "badjson"

\* task l has a request in flight
Waiting(l) == pc[l] \in {"dir", "reg", "br"}

\* the state of the tasks and of the aggregates
taskVars ==
  <<pc, attempt, branch, requested, dirRes, repoUrl, fullJsResult, verdict,
    counts, results, shown>>

\* C11: when the timer wins the race the request is terminated and the
\* attempt fails: an answer arriving after the timeout never becomes the
\* result of that or a later attempt, and the timed-out request is no longer
\* in flight when the next attempt is issued.
C11_Original ==
  /\ [](\A l \in Libs :
          (last.lib = l /\ last.kind = "timeout" /\ Waiting(l)) => ~leaked)
  /\ [][/\ \A l \in Libs :
             (Stepped(l) /\ last'.kind = "timeout") =>
               (Reissued(l) \/ CallerGotError(l))
        /\ (leaked /\ ~leaked') => UNCHANGED taskVars
       ]_vars

\* C12: a fetch or parse error inside getGitHubRepoUrl is caught there and
\* returned as null: it never reaches the catch of checkLibrary, the try
\* body goes on to record NotFound and to print the status line of a run
\* without arguments.
C12_RegistryErrorIsNull ==
  \A l \in Libs :
    /\ (last.lib = l /\ last.stage = "reg" /\ last.kind # "ok"
          /\ ~Waiting(l)) =>
         /\ repoUrl[l].st = "error"
         /\ dirRes[l] = "norecord"
         /\ verdict[l] = "notFound"
         /\ pc[l] = "recorded"
         /\ shown[l] = <<"notFound">>
         /\ mainPc = "awaiting"
    /\ repoUrl[l].st = "error" =>
         /\ verdict[l] = "notFound"
         /\ requested[l] = {"dir", "reg"}

\* the registry answered with a body that is not valid JSON
C12_Witness ==
  \E l \in Libs :
    /\ last.lib = l
    /\ last.stage = "reg"
    /\ last.kind = "badjson"
    /\ repoUrl[l].st = "error"
    /\ verdict[l] = "notFound"

\* the status that follows from the response ev that ended a pipeline
VerdictOf(ev) ==
  IF ev.kind # "ok" \/ ev.body.shape = "null" THEN "notFound"
  ELSE IF ev.stage = "dir" THEN
    LET r == ev.body.libraries[1] IN
      IF r.shape = "null" THEN "notFound"
      ELSE IF "true" \in {r.expoGo, r.newArchitecture, r.github}
        THEN "supported"
        ELSE "notSupported"
  ELSE IF ev.stage = "reg" THEN "notFound"
  ELSE IF \E d \in ev.body.dependencies.keys
                     \cup ev.body.devDependencies.keys :
            \E k \in 1..Len(d) : d[k] = "react-native"
    THEN "notSupported"
    ELSE "supported"

\* what task m owns
Own(m) ==
  <<pc[m], attempt[m], branch[m], requested[m], dirRes[m], repoUrl[m],
    fullJsResult[m], verdict[m], shown[m]>>

\* C13: the verdict of a name depends only on the responses to its own
\* requests: it is a function of the response that ended its own pipeline,
\* whatever the other tasks were answered; a step of one task changes
\* nothing another task owns, and a recorded verdict never changes.
C13_PerTaskIsolation ==
  /\ [](\A l \in Libs :
          (last.lib = l /\ pc[l] = "recorded") => verdict[l] = VerdictOf(last))
  /\ [][\A l \in Libs :
          /\ Stepped(l) =>
               /\ last'.lib = l
               /\ \A m \in Libs \ {l} : Own(m)' = Own(m)
          /\ verdict[l] # "none" => verdict'[l] = verdict[l]
       ]_vars

\* a task ended in supported by its own answer while another task had
\* ended in notFound
C13_Witness ==
  \E l \in Libs : \E m \in Libs \ {l} :
    /\ last.lib = l
    /\ pc[l] = "recorded"
    /\ verdict[l] = "supported"
    /\ verdict[m] = "notFound"
    /\ pc[m] = "recorded"

\* C14: no timeout, network or parse error of a per-dependency call is
\* raised to the caller of checkLibraries: no task rejects, Promise.all
\* never rejects, the run returns its result, and a dependency whose
\* pipeline ended on a failed call is counted as NotFound.
C14_NoErrorEscapes ==
  /\ mainPc \in {"init", "awaiting", "returned"}
  /\ \A l \in Libs :
       /\ pc[l] \in {"off", "dir", "reg", "br", "recorded", "done"}
       /\ (last.lib = l /\ last.kind # "ok" /\ ~Waiting(l)) =>
            /\ verdict[l] = "notFound"
            /\ Occurrences(results["notFound"], l) = 1
  /\ mainPc = "returned" =>
       /\ result.returned
       /\ \A l \in libraries : verdict[l] \in Statuses
       /\ result.notFound =
            Cardinality({l \in libraries : verdict[l] = "notFound"})

\* a run returned after a directory call and a manifest call had failed
C14_Witness ==
  /\ mainPc = "returned"
  /\ result.returned
  /\ result.notFound = 2
  /\ \E l \in libraries : dirRes[l] = "fetchError"
  /\ \E l \in libraries : fullJsResult[l] = "notFound"

\* C15: the result is produced only after every task recorded its terminal
\* verdict: no early return, every task of the run was started, none is
\* cancelled or left unfinished.
C15_ReturnsAfterAllTasks ==
  /\ [](/\ result.returned <=> mainPc = "returned"
        /\ mainPc # "init" => \A l \in libraries : pc[l] # "off"
        /\ mainPc = "returned" =>
             /\ progress = libraries
             /\ \A l \in libraries :
                  /\ pc[l] = "done"
                  /\ verdict[l] \in Statuses)
  /\ [][\A l \in Libs :
          /\ Waiting(l) => pc'[l] \in {"dir", "reg", "br", "recorded"}
          /\ pc[l] = "recorded" => pc'[l] \in {"recorded", "done"}
          /\ pc[l] = "done" => pc'[l] = "done"
       ]_vars

\* every task of a run over NumLibs names is done and the run returned
C15_Witness ==
  /\ mainPc = "returned"
  /\ Cardinality(libraries) = NumLibs
  /\ progress = libraries
  /\ result.notSupported >= 1

\* the status of a name in a network that answers its four URLs as w says
WorldVerdict(w) ==
  LET manifest(b) ==
        IF MarkedNames(w[b].body) # {} THEN "notSupported" ELSE "supported"
  IN IF w["dir"].kind # "ok" THEN "notFound"
     ELSE IF Len(w["dir"].body.libraries) > 0
       THEN VerdictOf([stage |-> "dir", kind |-> "ok", body |-> w["dir"].body])
     ELSE IF w["reg"].kind # "ok" \/ w["reg"].body.shape # "url"
       THEN "notFound"
     ELSE IF w["master"].kind = "ok" THEN manifest("master")
     ELSE IF w["main"].kind = "ok" THEN manifest("main")
     ELSE "notFound"

\* the names of the run whose status in the fixed network is s
WorldSet(s) ==
  {l \in rawData \ {"react-native"} : WorldVerdict(world[l]) = s}

\* C16: with a fixed response for every URL, every interleaving of the
\* tasks returns the same total, the same three counts and the same
\* per-status name sets: they are functions of the input and the responses.
C16_Deterministic ==
  /\ \A l \in PairLibs :
       verdict[l] # "none" => verdict[l] = WorldVerdict(world[l])
  /\ mainPc = "returned" =>
       /\ result.total = Cardinality(rawData \ {"react-native"})
       /\ result.supported = Cardinality(WorldSet("supported"))
       /\ result.notSupported = Cardinality(WorldSet("notSupported"))
       /\ result.notFound = Cardinality(WorldSet("notFound"))
       /\ \A s \in Statuses :
            /\ Names(results[s]) = WorldSet(s)
            /\ Len(results[s]) = Cardinality(WorldSet(s))

\* two names with the same fixed responses end in the same list, in either
\* order
C16_Witness ==
  /\ mainPc = "returned"
  /\ world[LibNames[1]] = world[LibNames[2]]
  /\ results["notSupported"] = <<LibNames[2], LibNames[1]>>

\* C17 as stated: a failed directory fetch is converted into the next
\* fallback step, the registry lookup, and NotFound is assigned only at the
\* end of the fallback chain.
C17_Original ==
  \A l \in Libs :
    dirRes[l] = "fetchError" =>
      /\ "reg" \in requested[l]
      /\ verdict[l] = "notFound" => (NoReference(l) \/ NoManifest(l))

\* C17 amended: a failed directory fetch (timeout, network or parse error)
\* reaches the catch of checkLibrary, which assigns NotFound at once:
\* neither the registry lookup nor the source analysis runs for that name.
C17_DirectoryFailureIsNotFound ==
  \A l \in Libs :
    /\ (last.lib = l /\ last.stage = "dir" /\ last.kind # "ok"
          /\ ~Waiting(l)) => dirRes[l] = "fetchError"
    /\ dirRes[l] = "fetchError" =>
         /\ verdict[l] = "notFound"
         /\ pc[l] \in {"recorded", "done"}
         /\ requested[l] = {"dir"}
         /\ repoUrl[l].st = "unset"
         /\ fullJsResult[l] = "unset"

\* the third directory attempt timed out
C17_Witness ==
  \E l \in Libs :
    /\ last.lib = l
    /\ last.stage = "dir"
    /\ last.kind = "timeout"
    /\ dirRes[l] = "fetchError"
    /\ verdict[l] = "notFound"
    /\ requested[l] = {"dir"}

\* C18: total is the number of keys of dependencies other than
\* react-native; the ignored name is never looked up and appears in no
\* count and no list (three keys with react-native among them give total 2).
C18_IgnoredNameDropped ==
  /\ mainPc # "init" => libraries = rawData \ {"react-native"}
  /\ pc["react-native"] = "off"
  /\ requested["react-native"] = {}
  /\ verdict["react-native"] = "none"
  /\ \A s \in Statuses : "react-native" \notin Names(results[s])
  /\ counts["supported"] + counts["notSupported"] + counts["notFound"]
       <= Cardinality(rawData \ {"react-native"})
  /\ mainPc = "returned" =>
       /\ result.total = Cardinality(rawData \ {"react-native"})
       /\ result.total
            = result.supported + result.notSupported + result.notFound

\* a run over react-native and two libraries returned total 2
C18_Witness ==
  /\ mainPc = "returned"
  /\ "react-native" \in rawData
  /\ Cardinality(rawData) = 3
  /\ result.total = 2

\* the short flag of a status
FlagOf == [supported |-> "-s", notSupported |-> "-ns", notFound |-> "-nf"]
\* status s is among the selected ones: its flag was given, or none was
Selected(s) ==
  IF args \cap {"-s", "-ns", "-nf"} = {} THEN TRUE ELSE FlagOf[s] \in args

\* C19: in non-group mode a status line is printed only for a library whose
\* terminal status is among the selected flags; with no status flag all
\* three statuses are selected; no line is printed for an unselected status,
\* and none at all in group mode.
C19_OnlySelectedStatusLines ==
  /\ \A s \in Statuses : config.flags[s] <=> Selected(s)
  /\ \A l \in Libs : \A k \in 1..Len(shown[l]) :
       /\ "--group" \notin args
       /\ shown[l][k] = verdict[l]
       /\ Selected(shown[l][k])

\* with -nf alone a supported library has no line and a not found one has
C19_Witness ==
  \E l \in Libs : \E m \in Libs :
    /\ args = {"-nf"}
    /\ verdict[l] = "supported"
    /\ shown[l] = <<>>
    /\ pc[l] = "done"
    /\ shown[m] = <<"notFound">>

\* C20: in non-group mode every library whose terminal status is selected
\* has exactly one status line when checkLibraries returns, whatever path
\* led to the status.
C20_Original ==
  (mainPc = "returned" /\ "--group" \notin args) =>
    \A l \in libraries : Selected(verdict[l]) => shown[l] = <<verdict[l]>>

\* the title of status s followed by the names of its list
TitleThenNames(s) ==
  <<<<"title", s>>>>
    \o [k \in 1..Len(results[s]) |-> <<"name", results[s][k]>>]

\* what C21 says of every state: no status line in group mode, nothing of
\* displayResults before the run returns or without --group, and the lists
\* hold the names that received the status
GroupModeFrame ==
  /\ "--group" \in args => \A l \in Libs : shown[l] = <<>>
  /\ (mainPc # "returned" \/ "--group" \notin args) => grouped = <<>>
  /\ mainPc = "returned" =>
       \A s \in Statuses : Names(results[s]) = VerdictSet(s)

\* C21 as stated: in group mode, for each selected status the group title
\* is printed followed by exactly the names that received the status, and
\* nothing of an unselected status.
C21_Original ==
  /\ GroupModeFrame
  /\ (mainPc = "returned" /\ "--group" \in args) =>
       LET part(s) == IF Selected(s) THEN TitleThenNames(s) ELSE <<>>
       IN grouped = part("supported") \o part("notSupported")
                      \o part("notFound")

\* C21 amended: ... for each selected status that at least one library
\* received, the group title is printed followed by exactly the names that
\* received it; a selected status no library received prints nothing, not
\* even its title, and nothing of an unselected status is printed.
C21_TitlesOfNonEmptyGroups ==
  /\ GroupModeFrame
  /\ (mainPc = "returned" /\ "--group" \in args) =>
       LET part(s) == IF Selected(s) /\ VerdictSet(s) # {}
                        THEN TitleThenNames(s) ELSE <<>>
       IN grouped = part("supported") \o part("notSupported")
                      \o part("notFound")

\* with --group -s -nf and no library not found, only the supported group
\* is printed, the not supported library is not
C21_Witness ==
  /\ mainPc = "returned"
  /\ args = {"--group", "-s", "-nf"}
  /\ result.supported = 1
  /\ result.notSupported = 1
  /\ grouped = <<<<"title", "supported">>,
                 <<"name", results["supported"][1]>>>>

\* C22: the same fetch policy applies at the directory, the registry and
\* every raw-manifest call site: at each of them a non-success response, a
\* transport error and a timeout are retried while fewer than 3 attempts
\* were made and fail the call on the third, and nothing else is retried.
C22_SamePolicyEverywhere ==
  /\ [](\A l \in Libs : attempt[l] \in {0, 1, 2})
  /\ [][\A l \in Libs : \A stage \in {"dir", "reg", "br"} :
          (Stepped(l) /\ pc[l] = stage) =>
            /\ Reissued(l) <=>
                 /\ last'.kind \in {"http", "neterr", "timeout"}
                 /\ attempt[l] < 2
            /\ (last'.kind \in {"http", "neterr", "timeout"}
                  /\ attempt[l] = 2) => CallerGotError(l)
       ]_vars

\* the third attempt is in flight at two different call sites at once
C22_Witness ==
  \E l \in Libs : \E m \in Libs :
    /\ pc[l] = "reg"
    /\ attempt[l] = 2
    /\ pc[m] = "br"
    /\ branch[m] = 2
    /\ attempt[m] = 2

\* C23: the directory verdict is a function of the first record of the
\* returned array: the later records change nothing, and the first record
\* decides whether or not it describes the requested package.
C23_FirstRecordOnly ==
  \A l \in Libs :
    (last.lib = l /\ last.stage = "dir" /\ last.kind = "ok") =>
      IF Len(last.body.libraries) = 0
        THEN pc[l] = "reg" /\ verdict[l] = "none"
        ELSE /\ pc[l] = "recorded"
             /\ dirRes[l] = "record"
             /\ requested[l] = {"dir"}
             /\ verdict[l] =
                  IF last.body.libraries[1].newArchitecture = "true"
                    THEN "supported" ELSE "notSupported"

\* the first record is of another package and says nothing, the second is
\* of the requested package and says supported: the verdict is notSupported
C23_Witness ==
  \E l \in Libs :
    /\ last.lib = l
    /\ last.stage = "dir"
    /\ last.kind = "ok"
    /\ Len(last.body.libraries) = 2
    /\ last.body.libraries[1].npmPkg = "other"
    /\ last.body.libraries[1].newArchitecture = "absent"
    /\ last.body.libraries[2].npmPkg = "self"
    /\ last.body.libraries[2].newArchitecture = "true"
    /\ verdict[l] = "notSupported"

\* the number of verdicts recorded in the aggregate
Recorded ==
  counts["supported"] + counts["notSupported"] + counts["notFound"]

\* q is an initial part of r
IsPrefix(q, r) == Len(q) <= Len(r) /\ q = SubSeq(r, 1, Len(q))

\* C24: in every reachable state each count is the length of its list, no
\* name occurs twice across the three lists, only input names occur, the
\* three counts sum to at most total, and a recorded verdict is never
\* changed or removed.
C24_RunningAggregate ==
  /\ [](/\ \A s \in Statuses :
             /\ counts[s] = Len(results[s])
             /\ Names(results[s]) \subseteq libraries
        /\ \A l \in AllNames :
             Occurrences(results["supported"], l)
               + Occurrences(results["notSupported"], l)
               + Occurrences(results["notFound"], l) <= 1
        /\ Recorded <= Cardinality(libraries))
  /\ [][/\ \A l \in Libs : verdict[l] # "none" => verdict'[l] = verdict[l]
        /\ mainPc # "init" =>
             \A s \in Statuses : IsPrefix(results[s], results'[s])
       ]_vars

\* in the middle of a run: one verdict recorded, another task on its
\* second attempt
C24_Witness ==
  /\ mainPc = "awaiting"
  /\ Cardinality(libraries) = NumLibs
  /\ Recorded = 1
  /\ \E l \in libraries : pc[l] = "reg" /\ attempt[l] = 1

\* C25: the reports "Scanning k of N" carry k = 1, 2, ..., in this order,
\* k being the number of tasks completed so far; k never exceeds the number
\* of verdicts recorded, and the last report before the result is N of N.
C25_ProgressReports ==
  /\ [](/\ reports = [k \in 1..Len(reports) |-> k]
        /\ Len(reports) = Cardinality({l \in libraries : pc[l] = "done"})
        /\ Len(reports) <= Recorded
        /\ mainPc = "returned" => Len(reports) = result.total)
  /\ [][reports' # reports =>
          /\ mainPc = "awaiting"
          /\ reports' = Append(reports, Len(reports) + 1)
       ]_vars

\* the last report of a run over NumLibs names is written, the result is
\* not produced yet
C25_Witness ==
  /\ mainPc = "awaiting"
  /\ Len(reports) = NumLibs
  /\ reports[NumLibs] = Cardinality(libraries)

\* C26: when every issued request is answered in the end (by a response, a
\* transport error or the timer), every task that waits for a request
\* eventually records a verdict, and a run that was started eventually
\* returns.
C26_Termination ==
  /\ \A l \in PairLibs : Waiting(l) ~> (verdict[l] # "none")
  /\ (mainPc = "awaiting") ~> (mainPc = "returned")

\* the run over two libraries returned, one of them after requests to the
\* directory, the registry and both branches
C26_Witness ==
  /\ mainPc = "returned"
  /\ libraries = PairLibs
  /\ \A l \in PairLibs : verdict[l] # "none"
  /\ \E l \in PairLibs : requested[l] = {"dir", "reg", "master", "main"}

\* the requests of the counted library, per target
SentBy == sent[LibNames[1]]

\* task l starts a call to target t in this step
Calls(l, t) ==
  /\ CurrentTarget(l)' = t
  /\ \/ pc[l] \notin {"dir", "reg", "br"}
     \/ CurrentTarget(l) # t

\* C27: one dependency issues at most 3 requests to the directory, at most
\* 3 to the registry and at most 3 per branch, at most 12 in all; the
\* registry is called at most once in a run and each branch is tried at
\* most once.
C27_AtMostTwelveRequests ==
  /\ [](/\ \A t \in Targets : SentBy[t] <= 3
        /\ SentBy["dir"] + SentBy["reg"] + SentBy["master"] + SentBy["main"]
             <= 12)
  /\ [][\A l \in PairLibs : \A t \in {"reg", "master", "main"} :
          (pc'[l] \in {"reg", "br"} /\ Calls(l, t)) => t \notin requested[l]
       ]_vars

\* the counted library used every request it can: three to each target
C27_Witness ==
  /\ LibNames[1] \in watched
  /\ \A t \in Targets : SentBy[t] = 3

\* C28: a response with a success status and a body that is not valid JSON
\* ends its fetchWithRetry call after that one attempt: no further request
\* goes to the same URL; the directory call ends in notFound with nothing
\* else requested, the registry call gives null, a manifest call on master
\* moves to main and one on main ends the analysis.
C28_ParseFailureNotRetried ==
  [][\A l \in PairLibs :
       (Stepped(l) /\ last'.lib = l /\ last'.kind = "badjson") =>
         /\ ~Reissued(l)
         /\ pc[l] = "dir" =>
              /\ dirRes'[l] = "fetchError"
              /\ verdict'[l] = "notFound"
              /\ requested'[l] = {"dir"}
         /\ pc[l] = "reg" =>
              /\ repoUrl'[l] = CaughtUrl
              /\ verdict'[l] = "notFound"
              /\ "master" \notin requested'[l]
         /\ (pc[l] = "br" /\ branch[l] = 1) =>
              /\ pc'[l] = "br"
              /\ branch'[l] = 2
              /\ attempt'[l] = 0
              /\ "main" \in requested'[l]
              /\ verdict'[l] = "none"
         /\ (pc[l] = "br" /\ branch[l] = 2) =>
              /\ fullJsResult'[l] = "notFound"
              /\ verdict'[l] = "notFound"
    ]_vars

\* the first answer for master was not valid JSON: main is requested with
\* two attempts on master unused
C28_Witness ==
  \E l \in PairLibs :
    /\ last.lib = l
    /\ last.stage = "master"
    /\ last.kind = "badjson"
    /\ pc[l] = "br"
    /\ branch[l] = 2
    /\ attempt[l] = 0
    /\ leaked = FALSE

\* the tasks that wait for the answer to a request
InFlight == {l \in libraries : Waiting(l)}

\* C29: the step that starts a run issues the directory request of every
\* name of the input, whatever their number, before any response is
\* processed; the tasks in flight are never more than the names.
C29_UnboundedFanOut ==
  /\ [][(mainPc = "init" /\ mainPc' = "awaiting") =>
          /\ \A l \in libraries' :
               /\ pc'[l] = "dir"
               /\ attempt'[l] = 0
               /\ requested'[l] = {"dir"}
               /\ verdict'[l] = "none"
          /\ last' = NoEvent
       ]_vars
  /\ [](Cardinality(InFlight) <= Cardinality(libraries))

\* as many tasks in flight at once as the largest input has names, no
\* response processed yet
C29_Witness ==
  /\ mainPc = "awaiting"
  /\ Cardinality(InFlight) = NumLibs
  /\ \A l \in libraries : pc[l] = "dir" /\ attempt[l] = 0
  /\ last = NoEvent

\* u without a first piece "git+" and without a last piece ".git"
Stripped(u) ==
  LET p == IF Len(u) > 0 /\ u[1] = "git+" THEN 1 ELSE 0
      q == IF Len(u) > p /\ u[Len(u)] = ".git" THEN 1 ELSE 0
  IN [k \in 1..(Len(u) - p - q) |-> u[k + p]]

\* C30: the resolver returns the registry's URL without a leading "git+"
\* and without a trailing ".git", everything else kept, "git+" and ".git"
\* inside the URL included; it returns null when the repository or its url
\* is absent.
C30_StripsPrefixAndSuffix ==
  \A l \in Libs :
    (last.lib = l /\ last.stage = "reg" /\ last.kind = "ok") =>
      IF last.body.shape = "url"
        THEN /\ repoUrl[l].st = "url"
             /\ repoUrl[l].url = Stripped(last.body.url)
        ELSE /\ last.body.shape \in {"norepo", "nourl", "null"}
             /\ repoUrl[l].st = "null"
             /\ verdict[l] = "notFound"

\* "git+" and ".git" were removed at the ends of a URL and a piece of the
\* same form was kept inside it
C30_Witness ==
  \E l \in Libs :
    /\ last.lib = l
    /\ last.stage = "reg"
    /\ last.kind = "ok"
    /\ last.body.shape = "url"
    /\ Len(last.body.url) = 3
    /\ last.body.url[1] = "git+"
    /\ last.body.url[2] \in {"git+", ".git"}
    /\ last.body.url[3] = ".git"
    /\ repoUrl[l].url = <<last.body.url[2]>>
    /\ pc[l] = "br"

\* C31: checkLibraries fails, with the error "Invalid package.json format",
\* exactly when the parsed file is not an object with a dependencies key;
\* it fails before any task is started: no request is issued and no count
\* or name list is modified.
C31_InvalidFormatFailsFirst ==
  /\ [](mainPc # "init" =>
          (mainPc = "failed"
             <=> ~(/\ parsed.truthy
                   /\ parsed.typeof = "object"
                   /\ "dependencies" \in parsed.keys)))
  /\ [](IF mainPc = "failed"
          THEN /\ thrown = "Invalid package.json format"
               /\ libraries = {}
               /\ \A l \in AllNames :
                    /\ pc[l] = "off"
                    /\ requested[l] = {}
                    /\ verdict[l] = "none"
                    /\ \A t \in Targets : sent[l][t] = 0
               /\ \A s \in Statuses : counts[s] = 0 /\ results[s] = <<>>
               /\ progress = {}
               /\ reports = <<>>
               /\ ~result.returned
               /\ ~leaked
          ELSE thrown = "none")
  /\ [][mainPc' = "failed" => mainPc \in {"init", "failed"}]_vars

\* the parsed file was an object without a dependencies key
C31_Witness ==
  /\ mainPc = "failed"
  /\ parsed = ParsedValue(TRUE, "object", {"devDependencies"})
  /\ thrown = "Invalid package.json format"

\* C32 as stated: in each sequential revision every dependency increments
\* exactly one of the three counters on every path, so the total is the sum
\* of the three counters when the loop has ended.
C32_Original ==
  /\ [](seq.pc = "returned" => Len(seq.libraries) = SeqRecorded)
  /\ [][(seq.pc # "init" /\ seq'.index = seq.index + 1) =>
          SeqRecorded' = SeqRecorded + 1
       ]_vars

\* C33 as stated: with one fixed response per URL the revision of part_001
\* and the revision of index.ts lines 1-271 give every dependency the same
\* terminal status and return the same counts.
C33_Original ==
  (mainPc = "returned" /\ p1.main = "returned") =>
    /\ p1.result = result
    /\ \A s \in Statuses : Names(p1.groupedResults[s]) = Names(results[s])

====
